---- MODULE Spec2Model ----
(***************************************************************************)
(* Medical report analyzer: field extraction, entity normalisation, the    *)
(* three-table MySQL store (patients -> reports -> ner_results) and its    *)
(* readers (fetch_all_reports, search_reports, get_entity_statistics).     *)
(*                                                                         *)
(* Strings are sequences of characters; a character is a one-character     *)
(* string, or "U+XXXX" for a code point outside ASCII.                     *)
(***************************************************************************)
EXTENDS Integers, Sequences, FiniteSets, TLC

VARIABLES
    \* the MySQL server
    schema,      \* the tables that exist
    patients,    \* committed rows of patients
    reports,     \* committed rows of reports
    ner_results, \* committed rows of ner_results
    autoinc,     \* the next AUTO_INCREMENT value of each table
    \* one run of the "Upload Report" page per session
    s_pc,        \* where the run is
    s_count,     \* how many uploaded files the run has taken up
    s_file,      \* the uploaded file in hand: text, the pipeline's answer, name
    s_details,   \* patient_details
    s_ents,      \* ner_results (the normalised entities)
    s_eidx,      \* position of store_to_mysql's loop over the entities
    s_txn,       \* rows inserted on the run's connection and not yet committed
    s_lastrowid, \* cursor.lastrowid of the run's connection
    s_patient_id,
    s_report_id,
    \* one reader: fetch_all_reports, search_reports or get_entity_statistics
    r_pc,
    r_out,       \* the value being built, returned at the end
    r_q,         \* the query of search_reports
    \* history: per store call, what the classifier did and the ids the call's
    \* inserts were given
    g_calls,
    g_reads,     \* history: the calls committed when the reader's first SELECT ran
    g_ids,       \* history: per table, the ids in the order they were assigned
    \* the pure functions on their own
    f_pc,        \* field pipeline: "text" -> "extracted" -> "stored"
    f_text,      \* the document text handed to extract_patient_details
    f_details,   \* the dict extract_patient_details returned
    f_outcome,   \* what store_to_mysql did with that dict up to the patient insert
    n_pc,        \* normaliser: "raw" -> "done"
    n_raw,       \* the records the NER pipeline returned
    n_out        \* the list extract_ner_entities returned

dbVars == <<schema, patients, reports, ner_results, autoinc>>
sessVars == <<s_pc, s_count, s_file, s_details, s_ents, s_eidx, s_txn,
              s_lastrowid, s_patient_id, s_report_id>>
readVars == <<r_pc, r_out, r_q, g_reads>>
fieldVars == <<f_pc, f_text, f_details, f_outcome>>
normVars == <<n_pc, n_raw, n_out>>

histVars == <<g_calls, g_ids>>

vars == <<dbVars, sessVars, readVars, histVars, fieldVars, normVars>>

----------------------------------------------------------------------------
(* Bounds *)

\* Most lines in a document text of the field pipeline.
MaxLines == 2

\* Most records in one answer of the NER pipeline.
MaxEntities == 2

\* Most uploaded files taken up in one behaviour, over all sessions.
MaxStores == 2

----------------------------------------------------------------------------
(* Characters and the string methods the code calls *)

AsciiDigits == <<"0", "1", "2", "3", "4", "5", "6", "7", "8", "9">>

\* ARABIC-INDIC DIGIT THREE and FOUR: Unicode category Nd (decimal digits).
ArabicThree == "U+0663"
ArabicFour == "U+0664"

\* SUPERSCRIPT TWO: category No, Numeric_Type=Digit (a digit, not a decimal).
SuperscriptTwo == "U+00B2"

IsAsciiDigit(c) == \E i \in 1..10 : AsciiDigits[i] = c

\* What re's \d matches in a str pattern, and what int() accepts: category Nd.
IsDecimalChar(c) == IsAsciiDigit(c) \/ c \in {ArabicThree, ArabicFour}

\* What str.isdigit() accepts per character: Numeric_Type Digit or Decimal.
IsDigitChar(c) == IsDecimalChar(c) \/ c = SuperscriptTwo

\* The ASCII digit with the value of decimal character c.
AsciiOf(c) ==
    IF c = ArabicThree THEN "3" ELSE IF c = ArabicFour THEN "4" ELSE c

Whitespace == {" ", "\t", "\r"}

UpperLetters == <<"A", "B", "C", "D", "E", "F", "G", "H", "I", "J", "K", "L", "M",
                  "N", "O", "P", "Q", "R", "S", "T", "U", "V", "W", "X", "Y", "Z">>
LowerLetters == <<"a", "b", "c", "d", "e", "f", "g", "h", "i", "j", "k", "l", "m",
                  "n", "o", "p", "q", "r", "s", "t", "u", "v", "w", "x", "y", "z">>

LowerChar(c) ==
    IF \E i \in 1..26 : UpperLetters[i] = c
    THEN LowerLetters[CHOOSE i \in 1..26 : UpperLetters[i] = c]
    ELSE c

\* str.lower()
Lower(s) == [i \in 1..Len(s) |-> LowerChar(s[i])]

\* `sub in s`
Contains(s, sub) ==
    \E i \in 0..(Len(s) - Len(sub)) : SubSeq(s, i + 1, i + Len(sub)) = sub

\* s.split(c): the pieces of s between the occurrences of character c.
RECURSIVE Split(_, _)
Split(s, c) ==
    IF \A i \in 1..Len(s) : s[i] /= c
    THEN <<s>>
    ELSE LET i == CHOOSE k \in 1..Len(s) :
                      s[k] = c /\ \A j \in 1..(k - 1) : s[j] /= c
         IN <<SubSeq(s, 1, i - 1)>> \o Split(SubSeq(s, i + 1, Len(s)), c)

\* s.split(":")[-1]
LastColonSegment(s) == LET parts == Split(s, ":") IN parts[Len(parts)]

\* s.strip()
RECURSIVE Strip(_)
Strip(s) ==
    IF s = <<>> THEN s
    ELSE IF Head(s) \in Whitespace THEN Strip(Tail(s))
    ELSE IF s[Len(s)] \in Whitespace THEN Strip(SubSeq(s, 1, Len(s) - 1))
    ELSE s

\* s[:n]
Truncate(s, n) == SubSeq(s, 1, IF Len(s) < n THEN Len(s) ELSE n)

\* re.search(r"\d+", s): whether it matches, and .group() of the match
\* (the leftmost, longest run of decimal characters).
HasDigitRun(s) == \E i \in 1..Len(s) : IsDecimalChar(s[i])

FirstDigitRun(s) ==
    LET start == CHOOSE i \in 1..Len(s) :
                     IsDecimalChar(s[i]) /\ \A j \in 1..(i - 1) : ~IsDecimalChar(s[j])
        stop == CHOOSE k \in start..Len(s) :
                     /\ \A j \in start..k : IsDecimalChar(s[j])
                     /\ (k = Len(s) \/ ~IsDecimalChar(s[k + 1]))
    IN SubSeq(s, start, stop)

\* "\n".join(lines)
RECURSIVE JoinLines(_)
JoinLines(ls) ==
    IF ls = <<>> THEN <<>>
    ELSE IF Len(ls) = 1 THEN ls[1]
    ELSE ls[1] \o <<"\n">> \o JoinLines(Tail(ls))

----------------------------------------------------------------------------
(* String literals *)

kwName == <<"N", "a", "m", "e">>
kwAge == <<"A", "g", "e">>
kwGender == <<"G", "e", "n", "d", "e", "r">>

sMale == <<"m", "a", "l", "e">>
sM == <<"m">>
sFemale == <<"f", "e", "m", "a", "l", "e">>
sF == <<"f">>

----------------------------------------------------------------------------
(* app.py: extract_patient_details *)

\* The truncation length of the age fallback.
AgeFallbackLen == 10

EmptyDetails == [name |-> <<>>, age |-> <<>>, gender |-> <<>>]

\* ExtractLine with the first occurrence of a keyword kept instead of the last.
ExtractLineFirstWins(details, line) ==
    IF Contains(line, kwName)
    THEN IF details.name /= <<>> THEN details
         ELSE [details EXCEPT !.name = Strip(LastColonSegment(line))]
    ELSE IF Contains(line, kwAge)
    THEN IF details.age /= <<>> THEN details
         ELSE IF HasDigitRun(line)
         THEN [details EXCEPT !.age = FirstDigitRun(line)]
         ELSE [details EXCEPT
                  !.age = Truncate(Strip(LastColonSegment(line)), AgeFallbackLen)]
    ELSE IF Contains(line, kwGender)
    THEN IF details.gender /= <<>> THEN details
         ELSE [details EXCEPT !.gender = Strip(LastColonSegment(line))]
    ELSE details

\* One iteration of the loop over the lines.
ExtractLine(details, line) ==
    IF Contains(line, kwName)
    THEN [details EXCEPT !.name = Strip(LastColonSegment(line))]
    ELSE IF Contains(line, kwAge)
    THEN IF HasDigitRun(line)
         THEN [details EXCEPT !.age = FirstDigitRun(line)]
         ELSE [details EXCEPT
                  !.age = Truncate(Strip(LastColonSegment(line)), AgeFallbackLen)]
    ELSE IF Contains(line, kwGender)
    THEN [details EXCEPT !.gender = Strip(LastColonSegment(line))]
    ELSE details

RECURSIVE ExtractLoop(_, _)
ExtractLoop(details, lines) ==
    IF lines = <<>> THEN details
    ELSE ExtractLoop(ExtractLine(details, Head(lines)), Tail(lines))

extract_patient_details(text) == ExtractLoop(EmptyDetails, Split(text, "\n"))

----------------------------------------------------------------------------
(* database.py: store_to_mysql, the coercions before the patient insert *)

\* str.isdigit()
IsDigit(s) == s /= <<>> /\ \A i \in 1..Len(s) : IsDigitChar(s[i])

\* Whether int(s) accepts a string that passed isdigit().
IntParses(s) == \A i \in 1..Len(s) : IsDecimalChar(s[i])

RECURSIVE StripLeadingZeros(_)
StripLeadingZeros(d) ==
    IF Len(d) > 1 /\ Head(d) = "0" THEN StripLeadingZeros(Tail(d)) ELSE d

\* The value of int(s), as its canonical decimal numeral (Python integers are
\* unbounded).
IntOf(s) == StripLeadingZeros([i \in 1..Len(s) |-> AsciiOf(s[i])])

AgeNone == [null |-> TRUE, digits |-> <<>>]
AgeInt(d) == [null |-> FALSE, digits |-> d]

\* Lines 61-64: the value of age_int, or the ValueError int() raises.
CoerceAge(age) ==
    IF ~IsDigit(age) THEN [raised |-> "none", age_int |-> AgeNone]
    ELSE IF ~IntParses(age) THEN [raised |-> "ValueError", age_int |-> AgeNone]
    ELSE [raised |-> "none", age_int |-> AgeInt(IntOf(age))]

\* CoerceGender without the call of lower().
CoerceGenderCaseSensitive(gender) ==
    IF gender \in {sMale, sM} THEN "Male"
    ELSE IF gender \in {sFemale, sF} THEN "Female"
    ELSE "Unknown"

\* Lines 66-71: gender_normalized.
CoerceGender(gender) ==
    IF Lower(gender) \in {sMale, sM} THEN "Male"
    ELSE IF Lower(gender) \in {sFemale, sF} THEN "Female"
    ELSE "Unknown"

\* The largest value of a MySQL INT column (patients.age), as a numeral.
IntMaxDigits == <<"2", "1", "4", "7", "4", "8", "3", "6", "4", "7">>

DigitValue(c) == (CHOOSE i \in 1..10 : AsciiDigits[i] = c) - 1

\* a <= b for canonical numerals of the same length.
RECURSIVE NumeralLeq(_, _)
NumeralLeq(a, b) ==
    IF a = <<>> THEN TRUE
    ELSE IF DigitValue(Head(a)) < DigitValue(Head(b)) THEN TRUE
    ELSE IF DigitValue(Head(a)) > DigitValue(Head(b)) THEN FALSE
    ELSE NumeralLeq(Tail(a), Tail(b))

FitsIntColumn(d) ==
    \/ Len(d) < Len(IntMaxDigits)
    \/ Len(d) = Len(IntMaxDigits) /\ NumeralLeq(d, IntMaxDigits)

\* Lines 74-75: what INSERT INTO patients does with age_int. A value outside
\* the INT column is an error 1264 under a strict sql_mode and is clamped to
\* the column's maximum otherwise; the code does not choose the mode.
PatientInsertOutcomes(age_int) ==
    IF age_int.null \/ FitsIntColumn(age_int.digits)
    THEN {[raised |-> "none", age |-> age_int]}
    ELSE {[raised |-> "DataError", age |-> AgeNone],
          [raised |-> "none", age |-> AgeInt(IntMaxDigits)]}

\* Lines 61-75 on one patient dict: the outcomes of the coercions and the
\* patient insert, each the exception raised (or "none") and the row's values.
StorePatientOutcomes(patient) ==
    LET c == CoerceAge(patient.age) IN
    IF c.raised /= "none"
    THEN {[raised |-> c.raised, name |-> patient.name, age |-> AgeNone,
           gender |-> "Unknown"]}
    ELSE {[raised |-> o.raised, name |-> patient.name, age |-> o.age,
           gender |-> CoerceGender(patient.gender)] :
             o \in PatientInsertOutcomes(c.age_int)}

----------------------------------------------------------------------------
(* The field pipeline: a text through extract_patient_details and then the  *)
(* coercions and the patient insert of store_to_mysql.                      *)

FieldValues ==
    { <<"3", "4", " ", "y", "e", "a", "r", "s">>,
      <<"5", "0">>,
      <<"u", "n", "k", "n", "o", "w", "n">>,
      <<SuperscriptTwo>>,
      <<ArabicThree, ArabicFour>>,
      <<"9", "9", "9", "9", "9", "9", "9", "9", "9", "9", "9">>,
      <<"F">>,
      <<"F", "e", "m", "a", "l", "e">>,
      <<"m", "a", "l", "e">>,
      <<"M", "A", "L", "E">>,
      <<>>,
      <<"n", "o", "t", " ", "a", "v", "a", "i", "l", "a", "b", "l", "e">>,
      <<"O", "t", "h", "e", "r">> }

FieldLines ==
    { kw \o <<":", " ">> \o v : kw \in {kwName, kwAge, kwGender}, v \in FieldValues }
    \cup { <<"N", "o", "t", "e", "s", " ", "1", "2">>,
           kwName \o <<"/">> \o kwGender \o <<":", " ", "M">> }

RECURSIVE SeqsUpTo(_, _)
SeqsUpTo(S, n) ==
    IF n = 0 THEN {<<>>}
    ELSE LET shorter == SeqsUpTo(S, n - 1)
         IN shorter \cup { Append(q, x) : q \in {r \in shorter : Len(r) = n - 1}, x \in S }

FieldTexts == { JoinLines(ls) : ls \in SeqsUpTo(FieldLines, MaxLines) }

NoOutcome == [raised |-> "none", name |-> <<>>, age |-> AgeNone, gender |-> "Unknown"]

FieldsStart ==
    /\ f_pc = "text"
    /\ f_text \in FieldTexts
    /\ f_details = EmptyDetails
    /\ f_outcome = NoOutcome

\* The field pipeline is not running.
FieldsOff ==
    /\ f_pc = "off"
    /\ f_text = <<>>
    /\ f_details = EmptyDetails
    /\ f_outcome = NoOutcome

FieldsExtract ==
    /\ f_pc = "text"
    /\ f_details' = extract_patient_details(f_text)
    /\ f_pc' = "extracted"
    /\ UNCHANGED <<f_text, f_outcome>>
    /\ UNCHANGED <<dbVars, sessVars, readVars, histVars, normVars>>

FieldsStore ==
    /\ f_pc = "extracted"
    /\ f_outcome' \in StorePatientOutcomes(f_details)
    /\ f_pc' = "stored"
    /\ UNCHANGED <<f_text, f_details>>
    /\ UNCHANGED <<dbVars, sessVars, readVars, histVars, normVars>>

----------------------------------------------------------------------------
(* app.py: extract_ner_entities *)

\* dict.pop(k) and d[k] = v on a dict, a function from its keys.
DictPop(d, k) == [x \in DOMAIN d \ {k} |-> d[x]]
DictSet(d, k, v) == [x \in DOMAIN d \cup {k} |-> IF x = k THEN v ELSE d[x]]

\* NormalizeEntity with the two renamed fields exchanged.
NormalizeEntitySwapped(entity) ==
    LET labelled == DictSet(DictPop(entity, "entity_group"), "text",
                            entity["entity_group"])
    IN DictSet(DictPop(labelled, "word"), "label", labelled["word"])

\* Lines 63-64 on one record of the pipeline's answer.
NormalizeEntity(entity) ==
    LET labelled == DictSet(DictPop(entity, "entity_group"), "label",
                            entity["entity_group"])
    IN DictSet(DictPop(labelled, "word"), "text", labelled["word"])

\* Lines 60-65 after the pipeline answered: the loop renames in place and the
\* same list is returned.
extract_ner_entities(raw) == [i \in 1..Len(raw) |-> NormalizeEntity(raw[i])]

lDRUG == <<"D", "R", "U", "G">>
lDOSE == <<"D", "O", "S", "E">>
wIbu == <<"i", "b", "u">>
wMg == <<"5", "m", "g">>

\* Records as the token-classification pipeline returns them with
\* aggregation_strategy="simple": entity_group, score, word, start, end.
\* The score is in hundredths.
RawRecords ==
    { [entity_group |-> g, score |-> sc, word |-> w, start |-> st,
       end |-> st + Len(w)] :
         g \in {lDRUG, lDOSE}, sc \in {52, 99}, w \in {wIbu, wMg}, st \in {0, 7} }

NormStart ==
    /\ n_pc = "raw"
    /\ n_raw \in SeqsUpTo(RawRecords, MaxEntities)
    /\ n_out = <<>>

NormOff ==
    /\ n_pc = "off"
    /\ n_raw = <<>>
    /\ n_out = <<>>

Normalize ==
    /\ n_pc = "raw"
    /\ n_out' = extract_ner_entities(n_raw)
    /\ n_pc' = "done"
    /\ UNCHANGED n_raw
    /\ UNCHANGED <<dbVars, sessVars, readVars, histVars, fieldVars>>

----------------------------------------------------------------------------
(* database.py: the store. Rows are records; a NULL integer is NullId and a  *)
(* NULL string is SqlNullText.                                               *)

Sessions == {"s1", "s2"}

\* AUTO_INCREMENT starts at 1; 0 stands for NULL (both fail the test of
\* fetch_all_reports, `if row['report_id']`) and for "no id yet".
NullId == 0
FirstId == 1

SqlNullText == <<"<NULL>">>

EmptyTxn == [patients |-> {}, reports |-> {}, ner_results |-> {}]

\* What a statement on session s's connection sees: the committed rows and
\* the rows of its own open transaction.
VisiblePatients(s) == patients \cup s_txn[s].patients
VisibleReports(s) == reports \cup s_txn[s].reports

\* FOREIGN KEY (patient_id) REFERENCES patients(id)
ReportFkHolds(s, patient_id) == \E p \in VisiblePatients(s) : p.id = patient_id

\* FOREIGN KEY (report_id) REFERENCES reports(id)
EntityFkHolds(s, report_id) == \E r \in VisibleReports(s) : r.id = report_id

\* AUTO_INCREMENT with the counter left where it was.
AdvanceAutoIncStuck(table) == autoinc

\* id INT AUTO_INCREMENT PRIMARY KEY: the counter after an insert took
\* autoinc[table]. The counter is not part of any transaction.
AdvanceAutoInc(table) == [autoinc EXCEPT ![table] = @ + 1]

\* cursor.execute("INSERT ...") on a connection in autocommit mode.
ExecuteInsertAutocommit(s, table, row) ==
    [txn |-> s_txn, committed |-> {row}]

\* cursor.execute("INSERT ...") on session s's connection: mysql.connector
\* opens connections with autocommit off, so the row stays in the open
\* transaction until conn.commit().
ExecuteInsert(s, table, row) ==
    [txn |-> [s_txn EXCEPT ![s][table] = @ \cup {row}], committed |-> {}]

----------------------------------------------------------------------------
(* app.py: the "Upload Report" page, one run per session *)

docText1 ==
    JoinLines(<< kwName \o <<":", " ", "A", "l">>,
                 kwAge \o <<":", " ", "3", "4", " ", "y", "e", "a", "r", "s">>,
                 kwGender \o <<":", " ", "F">> >>)
docText2 ==
    JoinLines(<< kwAge \o <<":", " ", "u", "n", "k", "n", "o", "w", "n">>,
                 kwGender \o <<":", " ", "m", "a", "l", "e">> >>)
docText3 == kwAge \o <<":", " ", SuperscriptTwo>>

fileR1 == <<"r", "1">>
fileR2 == <<"r", "2">>
fileR3 == <<"r", "3">>

RawRecord(g, w) ==
    [entity_group |-> g, score |-> 99, word |-> w, start |-> 0, end |-> Len(w)]

\* The files a user may upload: the text extract_text_from_pdf returns, the
\* answer the NER pipeline gives for it, and the file's name.
UploadedFiles ==
    { [text |-> docText1, answer |-> <<RawRecord(lDRUG, wIbu), RawRecord(lDOSE, wMg)>>,
       name |-> fileR1],
      [text |-> docText2, answer |-> <<RawRecord(lDRUG, wIbu)>>, name |-> fileR2],
      [text |-> docText3, answer |-> <<>>, name |-> fileR3] }

NoFile == [text |-> <<>>, answer |-> <<>>, name |-> <<>>]

\* Line 84: extract_patient_details on the text of each file.
UploadedDetails == [d \in UploadedFiles |-> extract_patient_details(d.text)]

\* Line 90: extract_ner_entities on the pipeline's answer for each file.
UploadedEntities == [d \in UploadedFiles |-> extract_ner_entities(d.answer)]

RECURSIVE SumCounts(_)
SumCounts(S) ==
    IF S = {} THEN 0
    ELSE LET x == CHOOSE y \in S : TRUE IN s_count[x] + SumCounts(S \ {x})

\* The store call session s is in: its session and the file's position.
CallOf(s) == <<s, s_count[s]>>
Calls == Sessions \X (1..MaxStores)

NoArguments == [patient |-> EmptyDetails, entities |-> <<>>, filename |-> <<>>]

\* What is remembered of a store call: what the classifier did ("none", "ok",
\* "failed"), how many entities it returned, the ids the call's inserts were
\* given, whether the call committed and, once it has, its arguments.
NoCall == [ner |-> "none", n |-> 0, pid |-> NullId, rid |-> NullId, eids |-> {},
           committed |-> FALSE, stored |-> NoArguments]

CommittedCalls == {k \in Calls : g_calls[k].committed}

\* The run with an exception swallowed after a failed classification.
OnNerFaultSwallowed == "store"

\* Line 90: an exception of the pipeline is not caught, so the run ends.
OnNerFault == "crashed"

\* The locals of a run that holds no file.
ClearLocals(s) ==
    /\ s_file' = [s_file EXCEPT ![s] = NoFile]
    /\ s_details' = [s_details EXCEPT ![s] = EmptyDetails]
    /\ s_ents' = [s_ents EXCEPT ![s] = <<>>]
    /\ s_eidx' = [s_eidx EXCEPT ![s] = 0]
    /\ s_lastrowid' = [s_lastrowid EXCEPT ![s] = NullId]
    /\ s_patient_id' = [s_patient_id EXCEPT ![s] = NullId]
    /\ s_report_id' = [s_report_id EXCEPT ![s] = NullId]

\* An exception leaves store_to_mysql: nothing was committed on the
\* connection, which is dropped with its transaction; the run ends.
Crash(s) ==
    /\ s_pc' = [s_pc EXCEPT ![s] = "crashed"]
    /\ s_txn' = [s_txn EXCEPT ![s] = EmptyTxn]
    /\ ClearLocals(s)

\* Lines 77-84: the next uploaded file, its text, extract_patient_details.
UploadTakeFile(s) ==
    /\ s_pc[s] = "file"
    /\ SumCounts(Sessions) < MaxStores
    /\ \E d \in UploadedFiles :
          /\ s_file' = [s_file EXCEPT ![s] = d]
          /\ s_details' = [s_details EXCEPT ![s] = UploadedDetails[d]]
    /\ s_count' = [s_count EXCEPT ![s] = @ + 1]
    /\ s_pc' = [s_pc EXCEPT ![s] = "ner"]
    /\ UNCHANGED <<s_ents, s_eidx, s_txn, s_lastrowid, s_patient_id, s_report_id>>
    /\ UNCHANGED <<dbVars, readVars, histVars, fieldVars, normVars>>

\* Line 90: the pipeline answers and extract_ner_entities returns.
UploadNer(s) ==
    /\ s_pc[s] = "ner"
    /\ s_ents' = [s_ents EXCEPT ![s] = UploadedEntities[s_file[s]]]
    /\ g_calls' = [g_calls EXCEPT ![CallOf(s)].ner = "ok",
                                  ![CallOf(s)].n = Len(s_file[s].answer)]
    /\ s_pc' = [s_pc EXCEPT ![s] = "store"]
    /\ UNCHANGED <<s_count, s_file, s_details, s_eidx, s_txn, s_lastrowid,
                   s_patient_id, s_report_id>>
    /\ UNCHANGED <<dbVars, readVars, g_ids, fieldVars, normVars>>

\* Line 90: the pipeline raises.
UploadNerFault(s) ==
    /\ s_pc[s] = "ner"
    /\ g_calls' = [g_calls EXCEPT ![CallOf(s)].ner = "failed"]
    /\ s_pc' = [s_pc EXCEPT ![s] = OnNerFault]
    /\ s_ents' = [s_ents EXCEPT ![s] = <<>>]
    /\ UNCHANGED <<s_count, s_file, s_details, s_eidx, s_txn, s_lastrowid,
                   s_patient_id, s_report_id>>
    /\ UNCHANGED <<dbVars, readVars, g_ids, fieldVars, normVars>>

\* Line 99: no file is left.
UploadFinish(s) ==
    /\ s_pc[s] = "file"
    /\ s_pc' = [s_pc EXCEPT ![s] = "done"]
    /\ UNCHANGED <<s_count, s_file, s_details, s_ents, s_eidx, s_txn, s_lastrowid,
                   s_patient_id, s_report_id>>
    /\ UNCHANGED <<dbVars, readVars, histVars, fieldVars, normVars>>

----------------------------------------------------------------------------
(* database.py: create_tables *)

TableNames == {"patients", "reports", "ner_results"}

\* Lines 19-46: the statements in the order create_tables executes them.
CreateOrder == <<"patients", "reports", "ner_results">>

\* Lines 33 and 44: the table a table's FOREIGN KEY names.
References(t) ==
    IF t = "reports" THEN {"patients"}
    ELSE IF t = "ner_results" THEN {"reports"}
    ELSE {}

\* The store as a statement finds it: the tables, their committed rows and
\* their AUTO_INCREMENT counters.
Db ==
    [schema |-> schema, patients |-> patients, reports |-> reports,
     ner_results |-> ner_results, autoinc |-> autoinc]

\* CREATE TABLE without IF NOT EXISTS: error 1050 for a table that exists.
CreateTableStrict(db, t) ==
    IF t \in db.schema THEN [db |-> db, raised |-> "exists"]
    ELSE IF ~(References(t) \subseteq db.schema) THEN [db |-> db, raised |-> "reference"]
    ELSE [db |-> [db EXCEPT !.schema = @ \cup {t}, ![t] = {}, !.autoinc[t] = FirstId],
          raised |-> "none"]

\* Lines 19-46: CREATE TABLE IF NOT EXISTS t. A table that exists is left as
\* it is (the server answers with a note, which the connector does not
\* raise); a new table is empty, counts from FirstId, and needs the table
\* its FOREIGN KEY names.
CreateTableIfNotExists(db, t) ==
    IF t \in db.schema THEN [db |-> db, raised |-> "none"]
    ELSE IF ~(References(t) \subseteq db.schema) THEN [db |-> db, raised |-> "reference"]
    ELSE [db |-> [db EXCEPT !.schema = @ \cup {t}, ![t] = {}, !.autoinc[t] = FirstId],
          raised |-> "none"]

\* The statements i..n of create_tables, up to the first that raises. Each
\* is committed as it runs (DDL).
RECURSIVE CreateTablesFrom(_, _, _)
CreateTablesFrom(db, i, n) ==
    IF i > n THEN [db |-> db, raised |-> "none"]
    ELSE LET r == CreateTableIfNotExists(db, CreateOrder[i])
         IN IF r.raised /= "none" THEN r ELSE CreateTablesFrom(r.db, i + 1, n)

\* Lines 14-50: create_tables.
create_tables(db) == CreateTablesFrom(db, 1, Len(CreateOrder))

\* What create_tables leaves when its connection fails: the tables of the
\* statements that ran.
CreateTablesInterrupted(db) ==
    { CreateTablesFrom(db, 1, n).db : n \in 0..Len(CreateOrder) }

TablesExist(S) == S \subseteq schema

\* The store after the statements that left db.
SetDb(db) ==
    /\ schema' = db.schema
    /\ patients' = db.patients
    /\ reports' = db.reports
    /\ ner_results' = db.ner_results
    /\ autoinc' = db.autoinc

----------------------------------------------------------------------------
(* database.py: store_to_mysql *)

\* The id of the newest row, of any connection, in the table session s
\* inserted into last (SELECT MAX(id), or LAST_INSERT_ID() of a connection
\* the runs share).
LastRowIdShared(s) ==
    IF s_pc[s] = "insert_report" THEN autoinc.patients - 1 ELSE autoinc.reports - 1

\* Lines 76 and 81: cursor.lastrowid, the id the last INSERT on session s's
\* own connection was given.
LastRowId(s) == s_lastrowid[s]

\* Lines 55-59: the connection, and create_tables() on a connection of its
\* own (CREATE TABLE IF NOT EXISTS, committed at once).
StoreOpen(s) ==
    /\ s_pc[s] = "store"
    /\ LET r == create_tables(Db)
       IN /\ SetDb(r.db)
          /\ IF r.raised /= "none"
             THEN Crash(s)
             ELSE /\ s_txn' = [s_txn EXCEPT ![s] = EmptyTxn]
                  /\ s_pc' = [s_pc EXCEPT ![s] = "insert_patient"]
                  /\ UNCHANGED <<s_file, s_details, s_ents, s_eidx, s_lastrowid,
                                 s_patient_id, s_report_id>>
    /\ UNCHANGED <<s_count, readVars, histVars, fieldVars, normVars>>

\* Lines 61-75: the coercions and the patient insert.
StoreInsertPatient(s) ==
    /\ s_pc[s] = "insert_patient"
    /\ \E o \in StorePatientOutcomes(s_details[s]) :
          IF o.raised /= "none"
          THEN /\ Crash(s)
               /\ UNCHANGED <<dbVars, histVars>>
          ELSE LET id == autoinc.patients
                   row == [id |-> id, name |-> o.name, age |-> o.age,
                           gender |-> o.gender]
                   eff == ExecuteInsert(s, "patients", row)
               IN /\ s_txn' = eff.txn
                  /\ patients' = patients \cup eff.committed
                  /\ autoinc' = AdvanceAutoInc("patients")
                  /\ s_lastrowid' = [s_lastrowid EXCEPT ![s] = id]
                  /\ g_calls' = [g_calls EXCEPT ![CallOf(s)].pid = id]
                  /\ g_ids' = [g_ids EXCEPT !.patients = Append(@, id)]
                  /\ s_pc' = [s_pc EXCEPT ![s] = "insert_report"]
                  /\ UNCHANGED <<schema, reports, ner_results>>
                  /\ UNCHANGED <<s_file, s_details, s_ents, s_eidx, s_patient_id,
                                 s_report_id>>
    /\ UNCHANGED <<s_count, readVars, fieldVars, normVars>>

\* Lines 76-80: patient_id is read from the cursor, then the report insert.
StoreInsertReport(s) ==
    /\ s_pc[s] = "insert_report"
    /\ LET patient_id == LastRowId(s)
       IN IF ~ReportFkHolds(s, patient_id)
          THEN /\ Crash(s)
               /\ UNCHANGED <<dbVars, histVars>>
          ELSE LET id == autoinc.reports
                   row == [id |-> id, patient_id |-> patient_id,
                           filename |-> s_file[s].name, processed |-> TRUE]
                   eff == ExecuteInsert(s, "reports", row)
               IN /\ s_txn' = eff.txn
                  /\ reports' = reports \cup eff.committed
                  /\ autoinc' = AdvanceAutoInc("reports")
                  /\ s_lastrowid' = [s_lastrowid EXCEPT ![s] = id]
                  /\ s_patient_id' = [s_patient_id EXCEPT ![s] = patient_id]
                  /\ s_eidx' = [s_eidx EXCEPT ![s] = 1]
                  /\ g_calls' = [g_calls EXCEPT ![CallOf(s)].rid = id]
                  /\ g_ids' = [g_ids EXCEPT !.reports = Append(@, id)]
                  /\ s_pc' = [s_pc EXCEPT ![s] = "insert_entities"]
                  /\ UNCHANGED <<schema, patients, ner_results>>
                  /\ UNCHANGED <<s_file, s_details, s_ents, s_report_id>>
    /\ UNCHANGED <<s_count, readVars, fieldVars, normVars>>

\* Lines 81-86: report_id is read from the cursor before the first
\* iteration; one iteration of the loop over the entities.
StoreInsertEntity(s) ==
    /\ s_pc[s] = "insert_entities"
    /\ s_eidx[s] <= Len(s_ents[s])
    /\ LET report_id == IF s_eidx[s] = 1 THEN LastRowId(s) ELSE s_report_id[s]
       IN IF ~EntityFkHolds(s, report_id)
          THEN /\ Crash(s)
               /\ UNCHANGED <<dbVars, histVars>>
          ELSE LET id == autoinc.ner_results
                   entity == s_ents[s][s_eidx[s]]
                   row == [id |-> id, report_id |-> report_id,
                           text |-> entity["text"], label |-> entity["label"]]
                   eff == ExecuteInsert(s, "ner_results", row)
               IN /\ s_txn' = eff.txn
                  /\ ner_results' = ner_results \cup eff.committed
                  /\ autoinc' = AdvanceAutoInc("ner_results")
                  /\ s_lastrowid' = [s_lastrowid EXCEPT ![s] = id]
                  /\ s_report_id' = [s_report_id EXCEPT ![s] = report_id]
                  /\ s_eidx' = [s_eidx EXCEPT ![s] = @ + 1]
                  /\ g_calls' = [g_calls EXCEPT ![CallOf(s)].eids = @ \cup {id}]
                  /\ g_ids' = [g_ids EXCEPT !.ner_results = Append(@, id)]
                  /\ UNCHANGED <<schema, patients, reports>>
                  /\ UNCHANGED <<s_pc, s_file, s_details, s_ents, s_patient_id>>
    /\ UNCHANGED <<s_count, readVars, fieldVars, normVars>>

\* Lines 88-90 and app.py line 97: conn.commit() makes the transaction's rows
\* visible at once; the run goes on to the next file.
StoreCommit(s) ==
    /\ s_pc[s] = "insert_entities"
    /\ s_eidx[s] > Len(s_ents[s])
    /\ patients' = patients \cup s_txn[s].patients
    /\ reports' = reports \cup s_txn[s].reports
    /\ ner_results' = ner_results \cup s_txn[s].ner_results
    /\ s_txn' = [s_txn EXCEPT ![s] = EmptyTxn]
    /\ g_calls' = [g_calls EXCEPT
                      ![CallOf(s)].committed = TRUE,
                      ![CallOf(s)].stored = [patient |-> s_details[s],
                                             entities |-> s_ents[s],
                                             filename |-> s_file[s].name]]
    /\ s_pc' = [s_pc EXCEPT ![s] = "file"]
    /\ ClearLocals(s)
    /\ UNCHANGED <<schema, autoinc, s_count>>
    /\ UNCHANGED <<readVars, g_ids, fieldVars, normVars>>

\* The store fails a statement of store_to_mysql (the connection, a table
\* creation, an insert, the commit): mysql.connector raises. The tables
\* created before the failure stay.
StoreFault(s) ==
    /\ s_pc[s] \in {"store", "insert_patient", "insert_report", "insert_entities"}
    /\ Crash(s)
    /\ IF s_pc[s] = "store"
       THEN \E db \in CreateTablesInterrupted(Db) : SetDb(db)
       ELSE UNCHANGED dbVars
    /\ UNCHANGED <<s_count, readVars, histVars, fieldVars, normVars>>

----------------------------------------------------------------------------
(* database.py: the readers. A call reads the rows committed when its first *)
(* SELECT runs.                                                              *)

\* The orders in which a SELECT without ORDER BY may return the rows S.
Orderings(S) ==
    { q \in [1..Cardinality(S) -> S] : \A i, j \in 1..Cardinality(S) :
                                            q[i] = q[j] => i = j }

\* The rows S in the order of ORDER BY p.id, r.id.
RECURSIVE SortByIds(_)
SortByIds(S) ==
    IF S = {} THEN <<>>
    ELSE LET first == CHOOSE x \in S : \A y \in S :
                          \/ x.id < y.id
                          \/ x.id = y.id /\ x.report_id <= y.report_id
         IN <<first>> \o SortByIds(S \ {first})

\* Lines 99-104: patients LEFT JOIN reports.
FetchJoin ==
    UNION { { [id |-> p.id, name |-> p.name, age |-> p.age, gender |-> p.gender,
               report_id |-> r.id, filename |-> r.filename,
               processed |-> r.processed] :
                 r \in {x \in reports : x.patient_id = p.id} } : p \in patients }
    \cup
    { [id |-> p.id, name |-> p.name, age |-> p.age, gender |-> p.gender,
       report_id |-> NullId, filename |-> SqlNullText, processed |-> FALSE] :
         p \in {x \in patients : \A r \in reports : r.patient_id /= x.id} }

\* Line 122: SELECT text, label FROM ner_results WHERE report_id = %s, which
\* names no order.
SelectEntities(report_id) ==
    { [i \in 1..Len(q) |-> [text |-> q[i].text, label |-> q[i].label]] :
         q \in Orderings({e \in ner_results : e.report_id = report_id}) }

\* Lines 109-130: one iteration of the loop over the rows, from the patients
\* grouped so far to each value the entity SELECT allows.
FetchAllRow(row, out) ==
    LET known == \E i \in 1..Len(out) : out[i].id = row.id
        grouped == IF known THEN out
                   ELSE Append(out, [id |-> row.id, name |-> row.name,
                                     age |-> row.age, gender |-> row.gender,
                                     reports |-> <<>>])
    IN IF row.report_id /= NullId
       THEN { [i \in 1..Len(grouped) |->
                 IF grouped[i].id = row.id
                 THEN [grouped[i] EXCEPT !.reports =
                          Append(@, [report_id |-> row.report_id,
                                     filename |-> row.filename,
                                     processed |-> row.processed,
                                     entities |-> entities])]
                 ELSE grouped[i]] : entities \in SelectEntities(row.report_id) }
       ELSE {grouped}

\* Lines 108-130: the loop over the rows.
RECURSIVE FetchAllLoop(_, _)
FetchAllLoop(rows, out) ==
    IF rows = <<>> THEN {out}
    ELSE UNION { FetchAllLoop(Tail(rows), o) : o \in FetchAllRow(Head(rows), out) }

\* Lines 93-134: fetch_all_reports. Its SELECTs run in one transaction of its
\* connection (autocommit is off), so all of them read the rows committed
\* when the first one ran.
FetchAll ==
    /\ r_pc = "idle"
    /\ IF /\ TablesExist({"patients", "reports"})
          /\ \/ TablesExist({"ner_results"})
             \/ \A row \in FetchJoin : row.report_id = NullId
       THEN /\ r_out' \in FetchAllLoop(SortByIds(FetchJoin), <<>>)
            /\ r_pc' = "fetched"
       ELSE /\ r_out' = <<>>
            /\ r_pc' = "error"
    /\ g_reads' = CommittedCalls
    /\ UNCHANGED r_q
    /\ UNCHANGED <<dbVars, sessVars, histVars, fieldVars, normVars>>

\* LIKE under the server's default collation, which ignores case: % matches
\* any run of characters, _ any one character, \ takes the next one literally.
RECURSIVE Like(_, _)
Like(s, pat) ==
    IF pat = <<>> THEN s = <<>>
    ELSE IF Head(pat) = "%"
    THEN Like(s, Tail(pat)) \/ (s /= <<>> /\ Like(Tail(s), pat))
    ELSE IF Head(pat) = "_"
    THEN s /= <<>> /\ Like(Tail(s), Tail(pat))
    ELSE IF Head(pat) = "\\" /\ Len(pat) > 1
    THEN s /= <<>> /\ LowerChar(Head(s)) = LowerChar(pat[2])
                   /\ Like(Tail(s), Tail(Tail(pat)))
    ELSE s /= <<>> /\ LowerChar(Head(s)) = LowerChar(Head(pat))
                   /\ Like(Tail(s), Tail(pat))

\* f"%{query}%"
LikePattern(query) == <<"%">> \o query \o <<"%">>

\* The number MySQL reads from a string compared with an INT column: its
\* leading ASCII digits (0 if there are none). Numerals longer than the ids of
\* the model are no id.
RECURSIVE NumeralValue(_, _)
NumeralValue(s, acc) ==
    IF s = <<>> \/ ~IsAsciiDigit(Head(s)) THEN acc
    ELSE IF acc > 99 THEN -1
    ELSE NumeralValue(Tail(s), acc * 10 + DigitValue(Head(s)))

\* Line 148: p.id = %s with `query if query.isdigit() else -1`.
IdMatches(id, query) ==
    IF IsDigit(query) THEN id = NumeralValue(query, 0) ELSE id = -1

PatientMatches(p, query) ==
    Like(p.name, LikePattern(query)) \/ IdMatches(p.id, query)

EntityMatches(e, query) ==
    Like(e.text, LikePattern(query)) \/ Like(e.label, LikePattern(query))

\* Lines 142-148: SELECT DISTINCT p.id, p.name, p.age, p.gender, r.filename
\* over patients LEFT JOIN reports LEFT JOIN ner_results, with the WHERE.
SearchRows(query) ==
    UNION { { [id |-> p.id, name |-> p.name, age |-> p.age, gender |-> p.gender,
               filename |-> r.filename] :
                 r \in {x \in reports :
                          /\ x.patient_id = p.id
                          /\ \/ PatientMatches(p, query)
                             \/ \E e \in ner_results :
                                   e.report_id = x.id /\ EntityMatches(e, query)} } :
            p \in patients }
    \cup
    { [id |-> p.id, name |-> p.name, age |-> p.age, gender |-> p.gender,
       filename |-> SqlNullText] :
         p \in {x \in patients : /\ \A r \in reports : r.patient_id /= x.id
                                 /\ PatientMatches(x, query)} }

\* Lines 153-158: ner_results JOIN reports WHERE r.patient_id = %s.
SelectPatientEntities(patient_id) ==
    { [i \in 1..Len(q) |-> [text |-> q[i].e.text, label |-> q[i].e.label,
                            filename |-> q[i].r.filename]] :
         q \in Orderings({ x \in [e : ner_results, r : reports] :
                             x.e.report_id = x.r.id /\ x.r.patient_id = patient_id }) }

\* Lines 152-159: one iteration of the loop over the results.
SearchRow(row, out) ==
    { Append(out, [id |-> row.id, name |-> row.name, age |-> row.age,
                   gender |-> row.gender, filename |-> row.filename,
                   entities |-> entities]) :
         entities \in SelectPatientEntities(row.id) }

\* Lines 151-159: the loop over the results.
RECURSIVE SearchLoop(_, _)
SearchLoop(rows, out) ==
    IF rows = <<>> THEN {out}
    ELSE UNION { SearchLoop(Tail(rows), o) : o \in SearchRow(Head(rows), out) }

\* Lines 137-163: search_reports, whose first SELECT names no order. Its
\* SELECTs run in one transaction of its connection, as fetch_all_reports'.
Search(query) ==
    /\ r_pc = "idle"
    /\ r_q' = query
    /\ IF TablesExist(TableNames)
       THEN /\ r_out' \in UNION { SearchLoop(rows, <<>>) :
                                    rows \in Orderings(SearchRows(query)) }
            /\ r_pc' = "searched"
       ELSE /\ r_out' = <<>>
            /\ r_pc' = "error"
    /\ g_reads' = CommittedCalls
    /\ UNCHANGED <<dbVars, sessVars, histVars, fieldVars, normVars>>

\* Lines 166-174: get_entity_statistics, dict(Counter(labels)).
EntityStatistics ==
    /\ r_pc = "idle"
    /\ IF TablesExist({"ner_results"})
       THEN /\ r_out' = [l \in {e.label : e \in ner_results} |->
                            Cardinality({e \in ner_results : e.label = l})]
            /\ r_pc' = "counted"
       ELSE /\ r_out' = <<>>
            /\ r_pc' = "error"
    /\ g_reads' = CommittedCalls
    /\ UNCHANGED r_q
    /\ UNCHANGED <<dbVars, sessVars, histVars, fieldVars, normVars>>

\* The page has shown the value (or the error); the reader may read again.
ReaderReset ==
    /\ r_pc \in {"fetched", "searched", "counted", "error"}
    /\ r_pc' = "idle"
    /\ r_out' = <<>>
    /\ r_q' = <<>>
    /\ g_reads' = {}
    /\ UNCHANGED <<dbVars, sessVars, histVars, fieldVars, normVars>>

----------------------------------------------------------------------------
(* The store with its sessions and its reader *)

DbEmpty ==
    /\ schema = {}
    /\ patients = {}
    /\ reports = {}
    /\ ner_results = {}
    /\ autoinc = [patients |-> FirstId, reports |-> FirstId, ner_results |-> FirstId]

SessionsAt(pc) ==
    /\ s_pc = [s \in Sessions |-> pc]
    /\ s_count = [s \in Sessions |-> 0]
    /\ s_file = [s \in Sessions |-> NoFile]
    /\ s_details = [s \in Sessions |-> EmptyDetails]
    /\ s_ents = [s \in Sessions |-> <<>>]
    /\ s_eidx = [s \in Sessions |-> 0]
    /\ s_txn = [s \in Sessions |-> EmptyTxn]
    /\ s_lastrowid = [s \in Sessions |-> NullId]
    /\ s_patient_id = [s \in Sessions |-> NullId]
    /\ s_report_id = [s \in Sessions |-> NullId]
    /\ g_calls = [k \in Calls |-> NoCall]
    /\ g_ids = [patients |-> <<>>, reports |-> <<>>, ner_results |-> <<>>]

ReaderIdle ==
    /\ r_pc = "idle"
    /\ r_out = <<>>
    /\ r_q = <<>>
    /\ g_reads = {}

Init == DbEmpty /\ SessionsAt("file") /\ ReaderIdle /\ FieldsOff /\ NormOff

Upload(s) ==
    \/ UploadTakeFile(s)
    \/ UploadNer(s)
    \/ UploadNerFault(s)
    \/ UploadFinish(s)

Store(s) ==
    \/ StoreOpen(s)
    \/ StoreInsertPatient(s)
    \/ StoreInsertReport(s)
    \/ StoreInsertEntity(s)
    \/ StoreCommit(s)
    \/ StoreFault(s)

\* What the user of the page searches for while files are uploaded.
PageQueries == { <<"_">> }

Read ==
    \/ FetchAll
    \/ \E query \in PageQueries : Search(query)
    \/ EntityStatistics
    \/ ReaderReset

Next == (\E s \in Sessions : Upload(s) \/ Store(s)) \/ Read

Spec == Init /\ [][Next]_vars

----------------------------------------------------------------------------
(* Specifications of the pure functions *)

InitFields == FieldsStart /\ NormOff /\ DbEmpty /\ SessionsAt("off") /\ ReaderIdle

NextFields == FieldsExtract \/ FieldsStore

SpecFields == InitFields /\ [][NextFields]_vars

InitNormalize == NormStart /\ FieldsOff /\ DbEmpty /\ SessionsAt("off") /\ ReaderIdle

NextNormalize == Normalize

SpecNormalize == InitNormalize /\ [][NextNormalize]_vars

----------------------------------------------------------------------------
(* Claims about the field extractor and the coercions (SpecFields) *)

f_lines == Split(f_text, "\n")

line34 == kwAge \o <<":", " ", "3", "4", " ", "y", "e", "a", "r", "s">>
s34 == <<"3", "4">>

\* A string composed entirely of decimal digits.
IsDecimalString(s) == s /= <<>> /\ \A i \in 1..Len(s) : IsDecimalChar(s[i])

\* C6: store never raises because of the age string the extractor produced:
\* a string of decimal digits is stored as that integer, any other string is
\* stored as an absent age.
C6_AgeNeverFailsStore ==
    f_pc = "stored" =>
        /\ f_outcome.raised = "none"
        /\ IF IsDecimalString(f_details.age)
           THEN f_outcome.age = AgeInt(IntOf(f_details.age))
           ELSE f_outcome.age = AgeNone

\* C7 as stated: every text with a line "Age: 34 years" yields age "34",
\* whatever the other lines are.
C7_Age34Always ==
    (f_pc /= "text" /\ \E i \in 1..Len(f_lines) : f_lines[i] = line34)
        => f_details.age = s34

\* A line the extractor attributes to the age field.
IsAgeLine(line) == Contains(line, kwAge) /\ ~Contains(line, kwName)

\* C7 amended: a text whose last age line (a line holding "Age" and not
\* "Name") is "Age: 34 years" yields age "34".
C7_Age34WhenLast ==
    (f_pc /= "text" /\ \E i \in 1..Len(f_lines) :
         /\ f_lines[i] = line34
         /\ \A j \in (i + 1)..Len(f_lines) : ~IsAgeLine(f_lines[j]))
        => f_details.age = s34

\* An earlier age line is overwritten by "Age: 34 years".
C7_Witness ==
    /\ f_pc = "extracted"
    /\ Len(f_lines) = 2
    /\ f_lines[2] = line34
    /\ IsAgeLine(f_lines[1])
    /\ f_lines[1] /= line34
    /\ f_details.age = s34

CaseEqChar(c, d) ==
    c = d \/ \E i \in 1..26 : {c, d} = {UpperLetters[i], LowerLetters[i]}

\* s equals the lower-case word w when case is ignored.
EqualsIgnoreCase(s, w) ==
    Len(s) = Len(w) /\ \A i \in 1..Len(s) : CaseEqChar(s[i], w[i])

\* C9: the stored gender is Male for "male"/"m" and Female for "female"/"f",
\* case ignored, and Unknown for every other string; it is never Other.
C9_GenderCoercion ==
    (f_pc = "stored" /\ f_outcome.raised = "none") =>
        LET g == f_details.gender IN
        /\ f_outcome.gender /= "Other"
        /\ (EqualsIgnoreCase(g, sMale) \/ EqualsIgnoreCase(g, sM))
              => f_outcome.gender = "Male"
        /\ (EqualsIgnoreCase(g, sFemale) \/ EqualsIgnoreCase(g, sF))
              => f_outcome.gender = "Female"
        /\ ~(\E w \in {sMale, sM, sFemale, sF} : EqualsIgnoreCase(g, w))
              => f_outcome.gender = "Unknown"

\* An upper-case "MALE" was stored as Male.
C9_Witness ==
    /\ f_pc = "stored"
    /\ f_outcome.raised = "none"
    /\ f_details.gender = <<"M", "A", "L", "E">>
    /\ f_outcome.gender = "Male"

----------------------------------------------------------------------------
(* Claims about the normaliser (SpecNormalize) *)

\* C8 as stated: one record per model record, in order, each with exactly
\* the keys text and label.
C8_OnlyTextAndLabel ==
    n_pc = "done" =>
        /\ Len(n_out) = Len(n_raw)
        /\ \A i \in 1..Len(n_out) :
              /\ DOMAIN n_out[i] = {"text", "label"}
              /\ n_out[i]["text"] = n_raw[i]["word"]
              /\ n_out[i]["label"] = n_raw[i]["entity_group"]

\* C8 amended: one record per model record, in order; word is renamed text
\* and entity_group is renamed label; every other field of the model record
\* (score, start, end) is kept with its value.
C8_RenamedKeepingOthers ==
    n_pc = "done" =>
        /\ Len(n_out) = Len(n_raw)
        /\ \A i \in 1..Len(n_out) :
              /\ DOMAIN n_out[i] =
                    (DOMAIN n_raw[i] \ {"word", "entity_group"}) \cup {"text", "label"}
              /\ n_out[i]["text"] = n_raw[i]["word"]
              /\ n_out[i]["label"] = n_raw[i]["entity_group"]
              /\ \A k \in DOMAIN n_raw[i] \ {"word", "entity_group"} :
                    n_out[i][k] = n_raw[i][k]

\* Two different records were normalised.
C8_Witness ==
    /\ n_pc = "done"
    /\ Len(n_out) = 2
    /\ n_raw[1] /= n_raw[2]
    /\ "score" \in DOMAIN n_out[1]

----------------------------------------------------------------------------
(* search_reports over any content the schema admits (SpecQuery) *)

\* Most rows per table in a content of the store.
MaxRows == 2

nameAl == <<"A", "l">>
nameBo == <<"B", "o">>

\* The contents of the store with at most MaxRows rows per table: ids as
\* AUTO_INCREMENT assigns them, every foreign key referring to a row.
StoredPatients(n) ==
    { [i \in 1..n |-> [id |-> i, name |-> names[i], age |-> AgeNone,
                       gender |-> "Unknown"]] : names \in [1..n -> {nameAl, nameBo}] }

StoredReports(n, np) ==
    { [i \in 1..n |-> [id |-> i, patient_id |-> c[i][1], filename |-> c[i][2],
                       processed |-> TRUE]] :
         c \in [1..n -> (1..np) \X {fileR1, fileR2}] }

StoredEntities(n, nr) ==
    { [i \in 1..n |-> [id |-> i, report_id |-> c[i][1], text |-> c[i][2],
                       label |-> lDRUG]] :
         c \in [1..n -> (1..nr) \X {wIbu, wMg}] }

Range(q) == { q[i] : i \in DOMAIN q }

AnyContent ==
    /\ schema = TableNames
    /\ \E np \in 0..MaxRows, nr \in 0..MaxRows, ne \in 0..MaxRows :
          /\ patients \in { Range(q) : q \in StoredPatients(np) }
          /\ reports \in { Range(q) : q \in StoredReports(nr, np) }
          /\ ner_results \in { Range(q) : q \in StoredEntities(ne, nr) }
          /\ autoinc = [patients |-> np + 1, reports |-> nr + 1,
                        ner_results |-> ne + 1]

\* What a user may search for.
Queries ==
    { <<"a">>, <<"A", "L">>, <<"1">>, <<"2">>, <<"_">>, <<"%">>,
      <<"D", "R", "U", "G">>, <<"5", "m">>, <<"z">> }

InitQuery ==
    AnyContent /\ SessionsAt("off") /\ ReaderIdle /\ FieldsOff /\ NormOff

NextQuery ==
    \/ \E query \in Queries : Search(query)
    \/ ReaderReset

SpecQuery == InitQuery /\ [][NextQuery]_vars

ResultIds == { r_out[i].id : i \in 1..Len(r_out) }

ContainsIgnoreCase(s, q) == Contains(Lower(s), Lower(q))

\* The value of a string of ASCII digits.
RECURSIVE DecimalValue(_)
DecimalValue(q) ==
    IF q = <<>> THEN 0
    ELSE DecimalValue(SubSeq(q, 1, Len(q) - 1)) * 10 + DigitValue(q[Len(q)])

\* The three criteria of the match policy for Patient p.
MatchesPolicy(p, q) ==
    \/ ContainsIgnoreCase(p.name, q)
    \/ IsDecimalString(q) /\ DecimalValue(q) = p.id
    \/ \E r \in reports, e \in ner_results :
          /\ r.patient_id = p.id
          /\ e.report_id = r.id
          /\ ContainsIgnoreCase(e.text, q) \/ ContainsIgnoreCase(e.label, q)

\* C4: the Patients search(q) returns are exactly those whose name contains
\* q, whose identifier the numeric q equals, or one of whose Entities has a
\* text or label containing q (of a search since which nothing was
\* committed).
C4_SearchMatchesPolicy ==
    (r_pc = "searched" /\ g_reads = CommittedCalls) =>
        ResultIds = { p.id : p \in {x \in patients : MatchesPolicy(x, r_q)} }

----------------------------------------------------------------------------
(* Claims about the store, its sessions and its reader (Spec) *)

PatientRowsOf(k) == {p \in patients : p.id = g_calls[k].pid}
ReportRowsOf(k) == {r \in reports : r.id = g_calls[k].rid}
EntityRowsOf(k) == {e \in ner_results : e.id \in g_calls[k].eids}

AllVisible(k) ==
    /\ Cardinality(PatientRowsOf(k)) = 1
    /\ Cardinality(ReportRowsOf(k)) = 1
    /\ Cardinality(EntityRowsOf(k)) = g_calls[k].n

NoneVisible(k) ==
    PatientRowsOf(k) = {} /\ ReportRowsOf(k) = {} /\ EntityRowsOf(k) = {}

\* C1: of every store call, readers see the Patient, the Report and all the
\* Entities, or none of them: in the committed rows at every moment, and in
\* what fetch_all_reports and search_reports return.
C1_StoreAtomic ==
    /\ \A k \in Calls : AllVisible(k) \/ NoneVisible(k)
    /\ r_pc = "fetched" =>
          \A i \in 1..Len(r_out), k \in Calls :
             g_calls[k].pid = r_out[i].id =>
                \E j \in 1..Len(r_out[i].reports) :
                   /\ r_out[i].reports[j].report_id = g_calls[k].rid
                   /\ Len(r_out[i].reports[j].entities) = g_calls[k].n
    /\ r_pc = "searched" =>
          \A i \in 1..Len(r_out), k \in Calls :
             g_calls[k].pid = r_out[i].id =>
                /\ r_out[i].filename /= SqlNullText
                /\ Len(r_out[i].entities) = g_calls[k].n

\* A call failed after its inserts, another committed, and fetch_all_reports
\* returned the committed one alone.
C1_Witness ==
    /\ r_pc = "fetched"
    /\ Len(r_out) = 1
    /\ \E k \in Calls :
          /\ ~g_calls[k].committed
          /\ g_calls[k].eids /= {}
          /\ s_pc[k[1]] = "crashed"
    /\ \E k \in Calls :
          /\ g_calls[k].committed
          /\ g_calls[k].n = 2
          /\ g_calls[k].pid = r_out[1].id

\* What fetch_all_reports is to return after the one committed call k.
RoundTrip(k) ==
    LET a == g_calls[k].stored IN
    << [id |-> g_calls[k].pid,
        name |-> a.patient.name,
        age |-> CoerceAge(a.patient.age).age_int,
        gender |-> CoerceGender(a.patient.gender),
        reports |->
           << [report_id |-> g_calls[k].rid,
               filename |-> a.filename,
               processed |-> TRUE,
               entities |-> [i \in 1..Len(a.entities) |->
                               [text |-> a.entities[i]["text"],
                                label |-> a.entities[i]["label"]]]] >>] >>

\* C2: after one successful store into an empty store, fetch_all returns one
\* Patient with one Report whose entities are those stored, in the order
\* they were inserted.
C2_RoundTrip ==
    (r_pc = "fetched" /\ Cardinality(g_reads) = 1) =>
        \A k \in g_reads : r_out = RoundTrip(k)

AllPatients == patients \cup UNION { s_txn[s].patients : s \in Sessions }
AllReports == reports \cup UNION { s_txn[s].reports : s \in Sessions }
AllEntities == ner_results \cup UNION { s_txn[s].ner_results : s \in Sessions }

DistinctIds(rows) == \A x, y \in rows : x.id = y.id => x = y

StrictlyIncreasing(q) == \A i, j \in 1..Len(q) : i < j => q[i] < q[j]

\* C5: every Entity refers to exactly one Report and every Report to exactly
\* one Patient, among all rows and among the committed rows; the ids of a
\* table are distinct and were assigned in increasing order.
C5_Ownership ==
    /\ \A e \in AllEntities : Cardinality({r \in AllReports : r.id = e.report_id}) = 1
    /\ \A r \in AllReports : Cardinality({p \in AllPatients : p.id = r.patient_id}) = 1
    /\ \A e \in ner_results : Cardinality({r \in reports : r.id = e.report_id}) = 1
    /\ \A r \in reports : Cardinality({p \in patients : p.id = r.patient_id}) = 1
    /\ DistinctIds(AllPatients) /\ DistinctIds(AllReports) /\ DistinctIds(AllEntities)
    /\ StrictlyIncreasing(g_ids.patients)
    /\ StrictlyIncreasing(g_ids.reports)
    /\ StrictlyIncreasing(g_ids.ner_results)

\* Two calls with their inserts interleaved, one of them still uncommitted,
\* so that a Report's id differs from its Patient's.
C5_Witness ==
    /\ Cardinality(AllPatients) = 2
    /\ Cardinality(AllEntities) >= 2
    /\ \E r \in AllReports : r.id /= r.patient_id
    /\ \E s \in Sessions : s_txn[s].ner_results /= {}

\* C10: no row is ever inserted for a document whose classification failed
\* or has not completed; store_to_mysql runs only after it succeeded.
C10_NoStoreWithoutEntities ==
    /\ \A k \in Calls :
          g_calls[k].ner /= "ok" =>
             g_calls[k].pid = NullId /\ g_calls[k].rid = NullId /\ g_calls[k].eids = {}
    /\ \A s \in Sessions :
          s_pc[s] \in {"store", "insert_patient", "insert_report", "insert_entities"}
             => g_calls[CallOf(s)].ner = "ok"

\* A run stored its first file and the classification of its second failed.
C10_Witness ==
    \E s \in Sessions :
       /\ s_pc[s] = "crashed"
       /\ s_count[s] = 2
       /\ g_calls[<<s, 1>>].committed
       /\ g_calls[<<s, 2>>].ner = "failed"

\* C11: create_tables (ensure_schema), called by a store in any state of the
\* tables (absent, partly created, present and empty, present with rows),
\* does not raise because tables exist, leaves all three tables in place and
\* every row and counter as it was, and a second call changes nothing more;
\* the store's own call has exactly that effect.
C11_EnsureSchemaIdempotent ==
    [][\A s \in Sessions :
          s_pc[s] = "store" =>
             LET first == create_tables(Db)
                 second == create_tables(first.db)
             IN /\ first.raised = "none"
                /\ first.db.schema = TableNames
                /\ first.db.patients = patients
                /\ first.db.reports = reports
                /\ first.db.ner_results = ner_results
                /\ first.db.autoinc = autoinc
                /\ second = first
                /\ s_pc'[s] /= "store" =>
                      /\ schema \subseteq schema'
                      /\ <<patients, reports, ner_results, autoinc>>' =
                            <<patients, reports, ner_results, autoinc>>
                /\ s_pc'[s] = "insert_patient" => schema' = TableNames]_vars

\* A run's second store passed create_tables with the rows of its first
\* store in the tables.
C11_Witness ==
    \E s \in Sessions :
       /\ s_count[s] = 2
       /\ s_pc[s] = "insert_patient"
       /\ g_calls[<<s, 1>>].committed
       /\ PatientRowsOf(<<s, 1>>) /= {}
       /\ EntityRowsOf(<<s, 1>>) /= {}
       /\ schema = TableNames

\* C12: however the inserts of concurrent store calls interleave, the Report
\* a call inserted refers to the Patient that call inserted and every Entity
\* a call inserted refers to the Report that call inserted; the id a call
\* reads back after an insert is the id of its own row, never that of a row
\* another call inserted.
C12_OwnIdsUnderInterleaving ==
    /\ \A r \in AllReports : \A k \in Calls :
          r.id = g_calls[k].rid => r.patient_id = g_calls[k].pid
    /\ \A e \in AllEntities : \A k \in Calls :
          e.id \in g_calls[k].eids => e.report_id = g_calls[k].rid
    /\ \A s \in Sessions :
          /\ s_patient_id[s] /= NullId =>
                /\ s_patient_id[s] = g_calls[CallOf(s)].pid
                /\ \A k \in Calls \ {CallOf(s)} : g_calls[k].pid /= s_patient_id[s]
          /\ s_report_id[s] /= NullId =>
                /\ s_report_id[s] = g_calls[CallOf(s)].rid
                /\ \A k \in Calls \ {CallOf(s)} : g_calls[k].rid /= s_report_id[s]
          /\ s_pc[s] = "insert_report" =>
                /\ LastRowId(s) = g_calls[CallOf(s)].pid
                /\ \A k \in Calls \ {CallOf(s)} : g_calls[k].pid /= LastRowId(s)

\* Two calls in progress at once whose inserts interleaved: the one that
\* inserted its Patient first inserted its Report last, and has read back
\* both ids.
C12_Witness ==
    \E s, t \in Sessions :
       /\ s /= t
       /\ s_txn[s].ner_results /= {}
       /\ s_txn[t].reports /= {}
       /\ s_patient_id[s] /= NullId
       /\ s_report_id[s] /= NullId
       /\ g_calls[CallOf(s)].pid < g_calls[CallOf(t)].pid
       /\ g_calls[CallOf(s)].rid > g_calls[CallOf(t)].rid

====
